---- MODULE Spec2Model ----
(***************************************************************************)
(* Layered resolution of Habitat service specifications                    *)
(* (components/hab/src/cli/hab/svc.rs): the bulk loader                    *)
(* svc_loads_from_paths, the Load -> SvcLoad translation                   *)
(* shared_load_cli_to_ctl and the Update -> SvcUpdate translation.         *)
(*                                                                         *)
(* Option<T> is modelled as a sequence of length at most one:              *)
(* None == <<>>, Some(v) == <<v>>.  Result<T> is a record                  *)
(* [ok, value, err].                                                       *)
(***************************************************************************)
EXTENDS Integers, Sequences, FiniteSets, TLC

VARIABLES platform, feature_flag, hab_bldr_url, default_file, fs, call, ret

vars == <<platform, feature_flag, hab_bldr_url, default_file, fs, call, ret>>

----------------------------------------------------------------------------
(* Option and Result *)

None == <<>>
Some(v) == <<v>>

Ok(v) == [ok |-> TRUE, value |-> v, err |-> "none"]
Err(e) == [ok |-> FALSE, value |-> <<>>, err |-> e]

----------------------------------------------------------------------------
(* Program constants *)

DEFAULT_SVC_CONFIG_FILE == "/hab/sup/default/config/svc.toml"
DEFAULT_SVC_CONFIG_DIR == "/hab/sup/default/config/svc"

CHANNEL_IDENT_DEFAULT == "stable"
GROUP_DEFAULT == "default"
health_check_interval_default == 30

----------------------------------------------------------------------------
(* The fields of Load (pkg_ident, force, remote_sup and the flattened      *)
(* SharedLoad).  application and environment are serde(skip): a file never *)
(* sets them, so they are not keys of a persisted layer.                   *)

IdentKey == "pkg_ident"

FieldKeys == {"force", "remote_sup", "channel", "bldr_url", "group", "topology",
              "strategy", "update_condition", "bind", "binding_mode",
              "health_check_interval", "shutdown_timeout", "password",
              "config_from"}

Keys == {IdentKey} \cup FieldKeys

\* Fields declared Option<T> in Load / SharedLoad / RemoteSup.
OptionalKeys == {"remote_sup", "bldr_url", "topology", "shutdown_timeout",
                 "password", "config_from"}

\* The i32 codes of the protocol enumerations.
TopologyCode(t) == CASE t = "standalone" -> 0 [] t = "leader" -> 1
UpdateStrategyCode(t) == CASE t = "none" -> 0 [] t = "at-once" -> 1 [] t = "rolling" -> 2
UpdateConditionCode(t) == CASE t = "latest" -> 0 [] t = "track-channel" -> 1
BindingModeCode(t) == CASE t = "relaxed" -> 0 [] t = "strict" -> 1

\* Default::default() of the protocol enumerations, the types of strategy,
\* update_condition and binding_mode in SharedLoad: the variant whose code
\* is 0.
UpdateStrategy_default ==
    CHOOSE t \in {"none", "at-once", "rolling"} : UpdateStrategyCode(t) = 0
UpdateCondition_default ==
    CHOOSE t \in {"latest", "track-channel"} : UpdateConditionCode(t) = 0
BindingMode_default ==
    CHOOSE t \in {"relaxed", "strict"} : BindingModeCode(t) = 0

\* The value a field gets from its serde default when the file does not
\* write it: the named function where serde(default = "...") names one, else
\* Default::default() of the field's type.
SerdeDefault(k) ==
    CASE k = "force" -> FALSE
      [] k = "channel" -> CHANNEL_IDENT_DEFAULT
      [] k = "group" -> GROUP_DEFAULT
      [] k = "strategy" -> UpdateStrategy_default
      [] k = "update_condition" -> UpdateCondition_default
      [] k = "bind" -> <<>>
      [] k = "binding_mode" -> BindingMode_default
      [] k = "health_check_interval" -> health_check_interval_default
      [] OTHER -> None

\* The value an option gets from structopt when the command line does not
\* give it: its default_value attribute.
StructoptDefault(k) ==
    CASE k = "force" -> FALSE
      [] k = "channel" -> CHANNEL_IDENT_DEFAULT
      [] k = "group" -> GROUP_DEFAULT
      [] k = "strategy" -> "none"
      [] k = "update_condition" -> "latest"
      [] k = "bind" -> <<>>
      [] k = "binding_mode" -> "strict"
      [] k = "health_check_interval" -> 30
      [] OTHER -> None

\* The values a file (or the command line) can write for a field.
Values(k) ==
    CASE k = "pkg_ident" -> <<"core/redis", "core/nginx">>
      [] k = "force" -> <<FALSE, TRUE>>
      [] k = "remote_sup" -> <<"127.0.0.1:9632", "10.0.0.7:9632">>
      [] k = "channel" -> <<"stable", "unstable">>
      [] k = "bldr_url" -> <<"https://bldr.habitat.sh/", "https://bldr.example.com/">>
      [] k = "group" -> <<"default", "prod">>
      [] k = "topology" -> <<"standalone", "leader">>
      [] k = "strategy" -> <<"none", "at-once", "rolling">>
      [] k = "update_condition" -> <<"latest", "track-channel">>
      [] k = "bind" -> << <<>>, <<"db:pg.default">>,
                          <<"db:pg.default", "cache:redis.default">>,
                          <<"cache:redis.default", "db:pg.default">> >>
      [] k = "binding_mode" -> <<"strict", "relaxed">>
      [] k = "health_check_interval" -> <<30, 5>>
      [] k = "shutdown_timeout" -> <<8, 60>>
      [] k = "password" -> <<"hunter2", "s3cret">>
      [] k = "config_from" -> <<"/src/redis/config", "/tmp/cfg">>

MaxValues == Len(Values("bind"))

----------------------------------------------------------------------------
(* Bounds *)

\* Fields (other than the identity) written in the service file and in the
\* default file together, in the resolution specification.
MaxKeys == 2

\* Entries of one directory in the discovery specification.
MaxEntries == 2

\* Roots handed to svc_loads_from_paths.
MaxPaths == 2

----------------------------------------------------------------------------
(* Persisted layers.  A ConfigOptLoad is a record over Keys whose fields   *)
(* are all Option: None for a key the file does not write.                 *)

EmptyLayer == [k \in Keys |-> None]

\* Every layer writing exactly the keys S.
LayersWriting(S) ==
    { [k \in Keys |-> IF k \in S THEN Some(Values(k)[g[k]]) ELSE None] :
        g \in {h \in [S -> 1..MaxValues] : \A k \in S : h[k] <= Len(Values(k))} }

\* Every layer writing exactly n of the keys in K.
LayersOfSize(n, K) ==
    UNION { LayersWriting(S) : S \in {T \in SUBSET K : Cardinality(T) = n} }

\* A file: whether it is syntactically TOML, whether it writes a key the
\* schema does not know, and the known keys it writes.
File(doc) == [wellformed |-> TRUE, unknown_key |-> FALSE, doc |-> doc]
Malformed == [wellformed |-> FALSE, unknown_key |-> FALSE, doc |-> EmptyLayer]
WithUnknownKey(doc) == [wellformed |-> TRUE, unknown_key |-> TRUE, doc |-> doc]

\* Faulty variant: keys outside the schema are ignored.
from_toml_file_ConfigOptLoad_ignoring_unknown(content) ==
    IF ~content.wellformed THEN Err("DecodeError")
    ELSE Ok([k \in Keys |-> IF k = "password" /\ platform # "windows"
                            THEN None ELSE content.doc[k]])

\* configopt::from_toml_file as ConfigOptLoad (deny_unknown_fields; the
\* password key only exists when target_os = "windows").
from_toml_file_ConfigOptLoad(content) ==
    IF ~content.wellformed THEN Err("DecodeError")
    ELSE IF content.unknown_key
            \/ (platform # "windows" /\ content.doc["password"] # None)
         THEN Err("UnknownField")
    ELSE Ok(content.doc)

DecodedLoad(doc) ==
    [k \in Keys |-> IF doc[k] = None THEN SerdeDefault(k)
                    ELSE IF k \in OptionalKeys THEN doc[k]
                    ELSE doc[k][1]]

\* Load::from_args: the Load structopt parses from a command line giving doc.
ParsedLoad(doc) ==
    [k \in Keys |-> IF doc[k] = None THEN StructoptDefault(k)
                    ELSE IF k \in OptionalKeys THEN doc[k]
                    ELSE doc[k][1]]

\* Faulty variant: pkg_ident is given a serde default, so a file without it decodes.
from_toml_file_Load_ident_optional(content) ==
    IF ~content.wellformed THEN Err("DecodeError")
    ELSE IF content.unknown_key
            \/ (platform # "windows" /\ content.doc["password"] # None)
         THEN Err("UnknownField")
    ELSE Ok(DecodedLoad(content.doc))

\* configopt::from_toml_file as Load: pkg_ident has no serde default.  Load
\* has serde(flatten) fields, so the derive sets the unrecognised keys aside,
\* reports a missing pkg_ident first and the keys left over only afterwards.
from_toml_file_Load(content) ==
    IF ~content.wellformed THEN Err("DecodeError")
    ELSE IF content.doc[IdentKey] = None THEN Err("MissingIdentity")
    ELSE IF content.unknown_key
            \/ (platform # "windows" /\ content.doc["password"] # None)
         THEN Err("UnknownField")
    ELSE Ok(DecodedLoad(content.doc))

\* ConfigOptLoad::take: every field set in other is moved into self.
take(self, other) ==
    [k \in Keys |-> IF other[k] # None THEN other[k] ELSE self[k]]

\* ConfigOptLoad::take_for: every field set in self is moved into the Load.
take_for(self, svc_load) ==
    [k \in Keys |-> IF self[k] = None THEN svc_load[k]
                    ELSE IF k \in OptionalKeys THEN self[k]
                    ELSE self[k][1]]

load_default_config_files ==
    IF feature_flag THEN <<DEFAULT_SVC_CONFIG_FILE>> ELSE <<>>

\* ConfigOptLoad::from_default_config_files: default_file is the content of
\* DEFAULT_SVC_CONFIG_FILE, None when the path does not exist (the default
\* file is optional).
from_default_config_files ==
    IF load_default_config_files = <<>> \/ default_file = None
    THEN Ok(EmptyLayer)
    ELSE from_toml_file_ConfigOptLoad(default_file[1])

\* Faulty variant: a single take_for of the default layer into the decoded Load.
svc_load_from_file_single_patch(first, second, default_svc_load) ==
    LET svc_load == from_toml_file_Load(second) IN
    IF ~svc_load.ok THEN svc_load
    ELSE Ok(take_for(default_svc_load, svc_load.value))

\* Lines 294-298: the body of the loop for one .toml file.  first and second
\* are the contents the two decodes of the path read.
svc_load_from_file(first, second, default_svc_load) ==
    LET configopt_svc_load == from_toml_file_ConfigOptLoad(first) IN
    IF ~configopt_svc_load.ok THEN configopt_svc_load
    ELSE LET patched == take(default_svc_load, configopt_svc_load.value)
             svc_load == from_toml_file_Load(second)
         IN  IF ~svc_load.ok THEN svc_load
             ELSE Ok(take_for(patched, svc_load.value))

----------------------------------------------------------------------------
(* The filesystem under the discovery roots.  A node is a directory entry: *)
(* its file name split as Path::extension splits it, its file type, the    *)
(* content of a regular file and, for a directory, its entries in the      *)
(* order read_dir enumerates them.                                         *)

Node(stem, ext, kind, content, entries) ==
    [stem |-> stem, ext |-> ext, kind |-> kind, content |-> content,
     entries |-> entries]

RegularFile(stem, ext, content) == Node(stem, ext, "file", content, <<>>)
Directory(stem, ext, entries) == Node(stem, ext, "dir", Malformed, entries)
Symlink(stem, ext) == Node(stem, ext, "symlink", Malformed, <<>>)

RootPaths == {DEFAULT_SVC_CONFIG_DIR, "/etc/hab/svc"}

\* WalkDir::new(path): the entry itself, then depth first the entries below it
\* in read_dir order; links are not followed.
RECURSIVE walk_node(_), walk_entries(_)
walk_node(node) ==
    <<Ok(node)>> \o (IF node.kind = "dir" THEN walk_entries(node.entries) ELSE <<>>)
walk_entries(entries) ==
    IF entries = <<>> THEN <<>>
    ELSE walk_node(Head(entries)) \o walk_entries(Tail(entries))

\* A root that does not exist yields one error item.
WalkDir(path) ==
    IF fs[path] = None THEN <<Err("IoError")>> ELSE walk_node(fs[path][1])

RECURSIVE walk_paths(_)
walk_paths(paths) ==
    IF paths = <<>> THEN <<>>
    ELSE WalkDir(Head(paths)) \o walk_paths(Tail(paths))

\* Faulty variant: the extension test is dropped.
is_svc_config_file_any_extension(entry) ==
    entry.kind = "file"

\* Lines 288-290: the entries the loop body decodes.
is_svc_config_file(entry) ==
    entry.kind = "file" /\ entry.ext = Some("toml")

\* Faulty variant: the default layer is patched in place, so what one file
\* writes is still there when the next file is resolved.
RECURSIVE load_entries_patching_shared_default(_, _, _)
load_entries_patching_shared_default(items, default_svc_load, svc_loads) ==
    IF items = <<>> THEN Ok(svc_loads)
    ELSE LET item == Head(items) IN
         IF ~item.ok THEN Err(item.err)
         ELSE IF is_svc_config_file(item.value)
         THEN LET svc_load == svc_load_from_file(item.value.content,
                                                 item.value.content,
                                                 default_svc_load)
              IN  IF ~svc_load.ok THEN svc_load
                  ELSE load_entries_patching_shared_default(
                           Tail(items),
                           take(default_svc_load,
                                from_toml_file_ConfigOptLoad(item.value.content).value),
                           Append(svc_loads, svc_load.value))
         ELSE load_entries_patching_shared_default(Tail(items), default_svc_load,
                                                   svc_loads)

\* Lines 284-305: the loop over the walked entries; the first error returns.
RECURSIVE load_entries(_, _, _)
load_entries(items, default_svc_load, svc_loads) ==
    IF items = <<>> THEN Ok(svc_loads)
    ELSE LET item == Head(items) IN
         IF ~item.ok THEN Err(item.err)
         ELSE IF is_svc_config_file(item.value)
         THEN LET svc_load == svc_load_from_file(item.value.content,
                                                 item.value.content,
                                                 default_svc_load)
              IN  IF ~svc_load.ok THEN svc_load
                  ELSE load_entries(Tail(items), default_svc_load,
                                    Append(svc_loads, svc_load.value))
         ELSE load_entries(Tail(items), default_svc_load, svc_loads)

\* Faulty variant: a missing default directory is tolerated in any list of roots.
RECURSIVE without_missing_default(_)
without_missing_default(paths) ==
    IF paths = <<>> THEN <<>>
    ELSE IF Head(paths) = DEFAULT_SVC_CONFIG_DIR /\ fs[Head(paths)] = None
    THEN without_missing_default(Tail(paths))
    ELSE <<Head(paths)>> \o without_missing_default(Tail(paths))

svc_loads_from_paths_tolerant(paths) ==
    LET default_svc_load == from_default_config_files IN
    IF ~default_svc_load.ok THEN default_svc_load
    ELSE load_entries(walk_paths(without_missing_default(paths)),
                      default_svc_load.value, <<>>)

svc_loads_from_paths(paths) ==
    IF Len(paths) = 1 /\ paths[1] = DEFAULT_SVC_CONFIG_DIR /\ fs[paths[1]] = None
    THEN Ok(<<>>)
    ELSE LET default_svc_load == from_default_config_files IN
         IF ~default_svc_load.ok THEN default_svc_load
         ELSE load_entries(walk_paths(paths), default_svc_load.value, <<>>)

----------------------------------------------------------------------------
(* Actions *)

env == <<platform, feature_flag, hab_bldr_url, default_file, fs>>

\* One run of hab parses one command and makes one call.
NoCall == [op |-> "none"]

\* hab svc bulkload --svc-config-paths paths
SvcLoadsFromPaths(paths) ==
    /\ call = NoCall
    /\ call' = [op |-> "svc_loads_from_paths", paths |-> paths]
    /\ ret' = svc_loads_from_paths(paths)
    /\ UNCHANGED env

PathInputs == UNION { [1..n -> RootPaths] : n \in 1..MaxPaths }

BulkLoad == \E paths \in PathInputs : SvcLoadsFromPaths(paths)

\* hab svc bulkload with the default value of --svc-config-paths
BulkLoadDefault == SvcLoadsFromPaths(<<DEFAULT_SVC_CONFIG_DIR>>)

----------------------------------------------------------------------------
(* Discovery specification: directory trees of a few entries, a few file   *)
(* contents.                                                               *)

RedisFile == File([EmptyLayer EXCEPT !["pkg_ident"] = Some("core/redis"),
                                     !["strategy"] = Some("none")])
NginxFile == File([EmptyLayer EXCEPT !["pkg_ident"] = Some("core/nginx")])
DefaultsFile == File([EmptyLayer EXCEPT !["strategy"] = Some("rolling"),
                                        !["group"] = Some("prod")])

\* The entries a directory can hold, apart from a subdirectory with entries.
LeafEntries ==
    { RegularFile("a", Some("toml"), c) : c \in {RedisFile, Malformed} }
    \cup { RegularFile("b", Some("toml"), c) : c \in {NginxFile, Malformed} }
    \cup { RegularFile("c", Some("txt"), Malformed),
           RegularFile("d", None, Malformed),
           Directory("e", Some("toml"), <<>>),
           Symlink("f", Some("toml")) }

DistinctNames(l) ==
    \A i, j \in 1..Len(l) : i # j => <<l[i].stem, l[i].ext>> # <<l[j].stem, l[j].ext>>

\* Directory listings of at most n leaf entries, in any enumeration order.
FlatListings(n) ==
    UNION { {l \in [1..m -> LeafEntries] : DistinctNames(l)} : m \in 0..n }

InsertAt(l, p, e) == SubSeq(l, 1, p - 1) \o <<e>> \o SubSeq(l, p, Len(l))

\* Listings of at most n entries in all, counting those of one subdirectory.
Listings(n) ==
    FlatListings(n)
    \cup IF n = 0 THEN {}
         ELSE UNION { { InsertAt(l, p, Directory("sub", None, s)) :
                          p \in 1..(Len(l) + 1),
                          s \in FlatListings(n - 1 - Len(l)) } :
                      l \in FlatListings(n - 1) }

RootDir(entries) == Some(Directory("svc", None, entries))

Init ==
    /\ platform = "linux"
    /\ \E e \in ({TRUE} \X {None, Some(DefaultsFile), Some(Malformed)})
                 \cup {<<FALSE, Some(DefaultsFile)>>} :
          /\ feature_flag = e[1]
          /\ default_file = e[2]
    /\ hab_bldr_url = None
    /\ fs \in { [p \in RootPaths |-> IF p = DEFAULT_SVC_CONFIG_DIR THEN d ELSE r] :
                 d \in {None, RootDir(<<RegularFile("a", Some("toml"), NginxFile)>>)},
                 r \in {None} \cup { RootDir(l) : l \in Listings(MaxEntries) } }
    /\ call = NoCall
    /\ ret = Ok(<<>>)

Next == BulkLoad

Spec == Init /\ [][Next]_vars

----------------------------------------------------------------------------
(* Vocabulary of the discovery claims *)

IsSvcLoadsCall == call.op = "svc_loads_from_paths"

\* The one tolerated absence: the sole root is the default directory.
SoleMissingDefault(paths) ==
    /\ Len(paths) = 1
    /\ paths[1] = DEFAULT_SVC_CONFIG_DIR
    /\ fs[paths[1]] = None

MissingRoots(paths) == {i \in 1..Len(paths) : fs[paths[i]] = None}

\* A file content both decodes of the loader accept.
Decodable(content) ==
    /\ content.wellformed
    /\ ~content.unknown_key
    /\ (platform = "windows" \/ content.doc["password"] = None)
    /\ content.doc[IdentKey] # None

DefaultFileDecodes ==
    \/ ~feature_flag
    \/ default_file = None
    \/ /\ default_file[1].wellformed
       /\ ~default_file[1].unknown_key
       /\ (platform = "windows" \/ default_file[1].doc["password"] = None)

\* The contents of the regular .toml files in a directory tree.
RECURSIVE SvcFilesIn(_)
SvcFilesIn(entries) ==
    IF entries = <<>> THEN <<>>
    ELSE LET e == Head(entries) IN
         (IF e.kind = "file" /\ e.ext = <<"toml">> THEN <<e.content>> ELSE <<>>)
         \o (IF e.kind = "dir" THEN SvcFilesIn(e.entries) ELSE <<>>)
         \o SvcFilesIn(Tail(entries))

RECURSIVE SvcFilesUnder(_)
SvcFilesUnder(paths) ==
    IF paths = <<>> THEN <<>>
    ELSE (IF fs[Head(paths)] = None THEN <<>>
          ELSE SvcFilesIn(<<fs[Head(paths)][1]>>))
         \o SvcFilesUnder(Tail(paths))

AllDecodable(files) == \A i \in 1..Len(files) : Decodable(files[i])

Count(seq, x) == Cardinality({i \in 1..Len(seq) : seq[i] = x})

FirstMissing(paths) ==
    CHOOSE i \in MissingRoots(paths) : \A j \in MissingRoots(paths) : i <= j

\* No decode failure is raised before the walk reaches the first missing root.
NoEarlierDecodeFailure(paths) ==
    /\ DefaultFileDecodes
    /\ AllDecodable(SvcFilesUnder(SubSeq(paths, 1, FirstMissing(paths) - 1)))

\* C4 as stated: a missing root is tolerated exactly when it is the sole root
\* and the default directory; any other missing root fails with IoError.
C4_MissingRootIsIoError ==
    IsSvcLoadsCall =>
        /\ SoleMissingDefault(call.paths) => ret = Ok(<<>>)
        /\ (MissingRoots(call.paths) # {} /\ ~SoleMissingDefault(call.paths)) =>
               (~ret.ok /\ ret.err = "IoError")

\* C4 amended: a sole missing default directory yields the empty sequence and
\* no error; any other missing root makes discover fail, with IoError unless a
\* decode failure (of the default file, or of a .toml file under a root listed
\* before the first missing one) is raised first.
C4_MissingRootFails ==
    IsSvcLoadsCall =>
        /\ SoleMissingDefault(call.paths) => ret = Ok(<<>>)
        /\ (MissingRoots(call.paths) # {} /\ ~SoleMissingDefault(call.paths)) =>
               /\ ~ret.ok
               /\ (ret.err = "IoError") <=> NoEarlierDecodeFailure(call.paths)

\* Two roots, the default directory among them and missing: IoError.
C4_Witness ==
    /\ IsSvcLoadsCall
    /\ Len(call.paths) = 2
    /\ \E i \in MissingRoots(call.paths) : call.paths[i] = DEFAULT_SVC_CONFIG_DIR
    /\ \E i \in 1..2 : fs[call.paths[i]] # None
    /\ ~ret.ok /\ ret.err = "IoError"

\* C5: a successful discover returns exactly one resolved spec per regular
\* .toml file under the roots (one per identity written there), and an entry
\* that is not a regular .toml file never makes discover fail.
C5_DiscoverySelection ==
    IsSvcLoadsCall =>
        LET files == SvcFilesUnder(call.paths) IN
        /\ (ret.ok /\ ~SoleMissingDefault(call.paths)) =>
              /\ Len(ret.value) = Len(files)
              /\ \A id \in {"core/redis", "core/nginx"} :
                    Count([i \in 1..Len(ret.value) |-> ret.value[i][IdentKey]], id)
                    = Count([i \in 1..Len(files) |-> files[i].doc[IdentKey]], Some(id))
        /\ ~ret.ok =>
              \/ MissingRoots(call.paths) # {}
              \/ ~DefaultFileDecodes
              \/ ~AllDecodable(files)

\* Two specs, one per identity, from a walk that also met an entry that is
\* not a regular .toml file.
C5_Witness ==
    /\ IsSvcLoadsCall
    /\ ret.ok
    /\ Len(ret.value) = 2
    /\ ret.value[1][IdentKey] # ret.value[2][IdentKey]
    /\ \E i \in 1..Len(call.paths) :
          /\ fs[call.paths[i]] # None
          /\ \E j \in 1..Len(fs[call.paths[i]][1].entries) :
                LET e == fs[call.paths[i]][1].entries[j] IN
                e.kind # "file" \/ e.ext # <<"toml">>

\* Lexical order of the file names used in the trees.
NameOrder == <<"a", "b", "c", "d", "e", "f", "sub">>
NameRank(node) == CHOOSE i \in 1..Len(NameOrder) : NameOrder[i] = node.stem

RECURSIVE InsertSorted(_, _)
InsertSorted(e, sorted) ==
    IF sorted = <<>> THEN <<e>>
    ELSE IF NameRank(e) <= NameRank(Head(sorted)) THEN <<e>> \o sorted
    ELSE <<Head(sorted)>> \o InsertSorted(e, Tail(sorted))

RECURSIVE SortEntries(_)
SortEntries(entries) ==
    IF entries = <<>> THEN <<>>
    ELSE InsertSorted(Head(entries), SortEntries(Tail(entries)))

\* The walk of a tree with every directory listed in lexical order.
RECURSIVE LexicalWalk(_)
LexicalWalk(entries) ==
    IF entries = <<>> THEN <<>>
    ELSE LET e == Head(entries) IN
         <<Ok(e)>>
         \o (IF e.kind = "dir" THEN LexicalWalk(SortEntries(e.entries)) ELSE <<>>)
         \o LexicalWalk(Tail(entries))

RECURSIVE LexicalWalkOf(_)
LexicalWalkOf(paths) ==
    IF paths = <<>> THEN <<>>
    ELSE LexicalWalk(<<fs[Head(paths)][1]>>) \o LexicalWalkOf(Tail(paths))

\* C6 as stated: the resolved specs come in the order of the roots and, within
\* a directory, in lexical order of the file names, whatever order the
\* filesystem enumerates the entries in.
C6_LexicalOrder ==
    (IsSvcLoadsCall /\ ret.ok /\ MissingRoots(call.paths) = {}) =>
        ret.value = load_entries(LexicalWalkOf(call.paths),
                                 from_default_config_files.value, <<>>).value

----------------------------------------------------------------------------
(* Resolution specification: one service file in the default directory,    *)
(* resolved against the default file.  The service file writes its         *)
(* identity and n fields (or nothing at all), the default file m keys, the *)
(* identity counting as one, with n + m <= MaxKeys.  Either file can also  *)
(* be malformed or carry an unknown key.                                   *)

ServiceLayers(n) ==
    { [l EXCEPT ![IdentKey] = Some("core/redis")] : l \in LayersOfSize(n, FieldKeys) }
    \cup (IF n = 0 THEN {EmptyLayer} ELSE {})

ServiceFileOf(s) == RootDir(<<RegularFile("a", Some("toml"), s)>>)

InitResolve ==
    /\ platform \in {"linux", "windows"}
    /\ feature_flag \in BOOLEAN
    /\ hab_bldr_url = None
    /\ call = NoCall
    /\ ret = Ok(<<>>)
    /\ \E n \in 0..MaxKeys, m \in 0..MaxKeys :
          /\ n + m <= MaxKeys
          /\ \E s \in ServiceLayers(n), d \in LayersOfSize(m, Keys) :
                \E sf \in {File(s), WithUnknownKey(s), Malformed},
                   df \in {None, Some(File(d)), Some(WithUnknownKey(d)), Some(Malformed)} :
                  /\ sf # File(s) => n = 0
                  /\ df # Some(File(d)) => m = 0
                  /\ default_file = df
                  /\ fs = [p \in RootPaths |->
                             IF p = DEFAULT_SVC_CONFIG_DIR THEN ServiceFileOf(sf)
                             ELSE None]

NextResolve == BulkLoadDefault

SpecResolve == InitResolve /\ [][NextResolve]_vars

----------------------------------------------------------------------------
(* Vocabulary of the resolution claims *)

\* The value a layer writes for a key, as a Load holds it.
Written(layer, k) == IF k \in OptionalKeys THEN layer[k] ELSE layer[k][1]

\* The DefaultFile layer of the pass: the decoded default file when the
\* service-config-files feature names one and it exists.
DefaultFileLayer ==
    IF feature_flag /\ default_file # None THEN default_file[1].doc ELSE EmptyLayer

\* The built-in default of each field, as C2 lists them.
BuiltInDefault ==
    [force |-> FALSE, remote_sup |-> None, channel |-> "stable",
     bldr_url |-> None, group |-> "default", topology |-> None,
     strategy |-> "none", update_condition |-> "latest", bind |-> <<>>,
     binding_mode |-> "strict", health_check_interval |-> 30,
     shutdown_timeout |-> None, password |-> None, config_from |-> None]

\* The i-th resolved spec comes from the i-th regular .toml file of the walk.
ResolvedFiles == SvcFilesUnder(call.paths)

Resolved ==
    /\ IsSvcLoadsCall
    /\ ret.ok
    /\ ~SoleMissingDefault(call.paths)

\* C1: a field the service file writes keeps the service file's value in the
\* resolved spec, whatever the default file writes for it, also when the
\* written value is the field's built-in default.
C1_ServiceFileWins ==
    Resolved =>
        \A i \in 1..Len(ret.value) : \A k \in Keys :
            ResolvedFiles[i].doc[k] # None =>
                ret.value[i][k] = Written(ResolvedFiles[i].doc, k)

\* The default file says strategy = rolling, the service file says
\* strategy = none (the built-in default): the resolved strategy is none.
C1_Witness ==
    /\ Resolved
    /\ Len(ret.value) = 1
    /\ DefaultFileLayer["strategy"] = Some("rolling")
    /\ ResolvedFiles[1].doc["strategy"] = Some("none")
    /\ ret.value[1]["strategy"] = "none"

\* C2 as stated: a field other than the identity that the service file does
\* not write resolves to the default file's value when the default file
\* writes it, and otherwise to the field's built-in default: channel stable,
\* group default, strategy none, update condition latest, bind empty, binding
\* mode strict, health-check interval 30, force false, optional fields absent.
C2_Fallback ==
    Resolved =>
        \A i \in 1..Len(ret.value) : \A k \in FieldKeys :
            ResolvedFiles[i].doc[k] = None =>
                ret.value[i][k] = IF DefaultFileLayer[k] # None
                                  THEN Written(DefaultFileLayer, k)
                                  ELSE BuiltInDefault[k]

\* The first regular .toml file of the walk that is not decodable, if any.
FirstUndecodable(files) ==
    IF AllDecodable(files) THEN 0
    ELSE CHOOSE i \in 1..Len(files) :
           /\ ~Decodable(files[i])
           /\ \A j \in 1..(i - 1) : Decodable(files[j])

OnlyIdentMissing(content) ==
    /\ content.wellformed
    /\ ~content.unknown_key
    /\ (platform = "windows" \/ content.doc["password"] = None)
    /\ content.doc[IdentKey] = None

\* C3: the identity of a resolved spec is the one its service file writes,
\* never the default file's; a service file without identity makes the
\* resolution fail with MissingIdentity, also when the default file has one.
C3_IdentityNotInherited ==
    IsSvcLoadsCall =>
        /\ Resolved =>
              \A i \in 1..Len(ret.value) :
                  /\ ResolvedFiles[i].doc[IdentKey] # None
                  /\ ret.value[i][IdentKey] = ResolvedFiles[i].doc[IdentKey][1]
        /\ (/\ MissingRoots(call.paths) = {}
            /\ DefaultFileDecodes
            /\ FirstUndecodable(ResolvedFiles) # 0
            /\ OnlyIdentMissing(ResolvedFiles[FirstUndecodable(ResolvedFiles)])) =>
              (~ret.ok /\ ret.err = "MissingIdentity")

\* The service file has no identity, the default file has one: failure.
C3_Witness ==
    /\ IsSvcLoadsCall
    /\ Len(ResolvedFiles) = 1
    /\ ResolvedFiles[1].doc[IdentKey] = None
    /\ DefaultFileLayer[IdentKey] = Some("core/nginx")
    /\ ~ret.ok /\ ret.err = "MissingIdentity"

----------------------------------------------------------------------------
(* The discovery pass as a whole *)

\* The resolution of one service file against a given DefaultFile layer.
resolve(content, default_layer) ==
    svc_load_from_file(content, content, default_layer)

\* C11: the DefaultFile layer is loaded once and no resolution changes it:
\* every resolved spec of a pass equals the resolution of its own file against
\* the DefaultFile layer as loaded, whatever files were resolved before it.
C11_DefaultLayerReadOnly ==
    Resolved =>
        \A i \in 1..Len(ret.value) :
            ret.value[i] = resolve(ResolvedFiles[i], DefaultFileLayer).value

\* The default file says strategy = rolling; the first file says strategy =
\* none, the second writes no strategy and still resolves to rolling.
C11_Witness ==
    /\ Resolved
    /\ Len(ret.value) = 2
    /\ DefaultFileLayer["strategy"] = Some("rolling")
    /\ ResolvedFiles[1].doc["strategy"] = Some("none")
    /\ ResolvedFiles[2].doc["strategy"] = None
    /\ ret.value[1]["strategy"] = "none"
    /\ ret.value[2]["strategy"] = "rolling"

\* The resolved specs of the given files, each against the loaded default.
RECURSIVE ResolvedSpecsOf(_)
ResolvedSpecsOf(files) ==
    IF files = <<>> THEN <<>>
    ELSE <<resolve(Head(files), DefaultFileLayer).value>>
         \o ResolvedSpecsOf(Tail(files))

\* C12 as stated: an undecodable service file does not abort the pass; when
\* the roots exist and the default file decodes, discover still produces the
\* resolved specs of all the decodable .toml files under the roots.
C12_PerFileFailureCollection ==
    (IsSvcLoadsCall /\ MissingRoots(call.paths) = {} /\ DefaultFileDecodes) =>
        /\ ret.ok
        /\ ret.value = ResolvedSpecsOf(SelectSeq(ResolvedFiles, Decodable))

\* A syntactically valid file that writes a key outside the schema of the
\* build (password is in the schema only when target_os = "windows").
HasUnknownKey(content) ==
    /\ content.wellformed
    /\ \/ content.unknown_key
       \/ (platform # "windows" /\ content.doc["password"] # None)

\* The pass decodes the default file.
DefaultFileDecoded ==
    /\ IsSvcLoadsCall
    /\ ~SoleMissingDefault(call.paths)
    /\ feature_flag
    /\ default_file # None

\* The pass reaches the i-th .toml file of the walk and decodes it.
ServiceFileDecoded(i) ==
    /\ IsSvcLoadsCall
    /\ DefaultFileDecodes
    /\ MissingRoots(call.paths) = {}
    /\ i \in 1..Len(ResolvedFiles)
    /\ \A j \in 1..(i - 1) : Decodable(ResolvedFiles[j])

\* C13: a default file or a service file with a key outside the schema is
\* rejected with UnknownField when the pass decodes it, and no pass that
\* succeeds has resolved a spec from such a file.
C13_StrictSchema ==
    IsSvcLoadsCall =>
        /\ (DefaultFileDecoded /\ HasUnknownKey(default_file[1])) =>
               ret = Err("UnknownField")
        /\ \A i \in 1..Len(ResolvedFiles) :
               (ServiceFileDecoded(i) /\ HasUnknownKey(ResolvedFiles[i])) =>
                   ret = Err("UnknownField")
        /\ Resolved =>
               /\ \A i \in 1..Len(ret.value) : ~HasUnknownKey(ResolvedFiles[i])
               /\ DefaultFileDecoded => ~HasUnknownKey(default_file[1])

\* The default file decodes, the service file has an unknown key: rejected.
C13_Witness ==
    /\ ServiceFileDecoded(1)
    /\ DefaultFileDecoded
    /\ ResolvedFiles[1].unknown_key
    /\ ret = Err("UnknownField")

----------------------------------------------------------------------------
(* Snapshot specification: the default directory holds one service file,   *)
(* a.toml, and another process can rewrite it while the loader runs.  The  *)
(* loader reads the path twice, so its run is two steps with the file      *)
(* system free to change in between.                                       *)

\* The contents a.toml can have.
SvcFileVersions ==
    { RedisFile, NginxFile, Malformed, WithUnknownKey(EmptyLayer),
      File([EmptyLayer EXCEPT !["pkg_ident"] = Some("core/redis")]),
      File([EmptyLayer EXCEPT !["pkg_ident"] = Some("core/redis"),
                              !["group"] = Some("prod")]),
      File([EmptyLayer EXCEPT !["pkg_ident"] = Some("core/nginx"),
                              !["strategy"] = Some("at-once"),
                              !["group"] = Some("default")]) }

\* What a read of the path of a.toml returns now.
svc_file_content == fs[DEFAULT_SVC_CONFIG_DIR][1].entries[1].content

\* Lines 275-296: the default layer is loaded, the walk reaches a.toml and
\* the path is decoded as ConfigOptLoad.
ReadConfigOptLoad ==
    /\ call = NoCall
    /\ LET default_svc_load == from_default_config_files
           configopt_svc_load == from_toml_file_ConfigOptLoad(svc_file_content)
       IN  IF ~default_svc_load.ok \/ ~configopt_svc_load.ok
           THEN /\ call' = [op |-> "svc_loads_from_paths",
                            paths |-> <<DEFAULT_SVC_CONFIG_DIR>>,
                            pc |-> "returned",
                            first |-> svc_file_content,
                            second |-> svc_file_content]
                /\ ret' = IF ~default_svc_load.ok THEN default_svc_load
                          ELSE configopt_svc_load
           ELSE /\ call' = [op |-> "svc_loads_from_paths",
                            paths |-> <<DEFAULT_SVC_CONFIG_DIR>>,
                            pc |-> "line 297",
                            first |-> svc_file_content,
                            second |-> svc_file_content]
                /\ ret' = ret
    /\ UNCHANGED env

\* Lines 297-305: the path is decoded again, as Load, and patched; a.toml is
\* the last entry of the walk.
ReadLoad ==
    /\ call # NoCall
    /\ call.pc = "line 297"
    /\ LET svc_load == svc_load_from_file(call.first, svc_file_content,
                                          from_default_config_files.value)
       IN  /\ call' = [call EXCEPT !.pc = "returned", !.second = svc_file_content]
           /\ ret' = IF svc_load.ok THEN Ok(<<svc_load.value>>) ELSE svc_load
    /\ UNCHANGED env

\* Another process replaces a.toml while the loader has not returned.
RewriteSvcFile ==
    /\ IF call = NoCall THEN TRUE ELSE call.pc # "returned"
    /\ \E content \in SvcFileVersions \ {svc_file_content} :
          fs' = [fs EXCEPT ![DEFAULT_SVC_CONFIG_DIR] = ServiceFileOf(content)]
    /\ UNCHANGED <<platform, feature_flag, hab_bldr_url, default_file, call, ret>>

InitSnapshot ==
    /\ platform = "linux"
    /\ feature_flag = TRUE
    /\ hab_bldr_url = None
    /\ default_file \in {None, Some(DefaultsFile), Some(Malformed)}
    /\ fs \in { [p \in RootPaths |-> IF p = DEFAULT_SVC_CONFIG_DIR
                                      THEN ServiceFileOf(content) ELSE None] :
                 content \in SvcFileVersions }
    /\ call = NoCall
    /\ ret = Ok(<<>>)

NextSnapshot == ReadConfigOptLoad \/ RewriteSvcFile \/ ReadLoad

SpecSnapshot == InitSnapshot /\ [][NextSnapshot]_vars

\* C18 as stated: a resolved spec comes from one version of its service
\* file: it is the resolution of a content the file had while it was being
\* resolved, also when the file was rewritten between the two decodes.
C18_SingleSnapshot ==
    (call # NoCall /\ call.pc = "returned" /\ ret.ok) =>
        \E content \in {call.first, call.second} :
            /\ resolve(content, DefaultFileLayer).ok
            /\ ret.value = <<resolve(content, DefaultFileLayer).value>>

----------------------------------------------------------------------------
(* Request Builder: Load -> ctl::SvcLoad and Update -> ctl::SvcUpdate *)

DEFAULT_BLDR_URL == "https://bldr.habitat.sh"

OptMap(Op(_), o) == IF o = None THEN None ELSE Some(Op(o[1]))

\* PackageIdent -> protocol PackageIdent (ident.into()).
PackageIdent_into(ident) ==
    CASE ident = "core/redis" -> [origin |-> "core", name |-> "redis"]
      [] ident = "core/nginx" -> [origin |-> "core", name |-> "nginx"]

\* core ServiceBind -> protocol ServiceBind (ServiceBind::from).
ServiceBind_from(bind) ==
    CASE bind = "db:pg.default" -> [name |-> "db", service_group |-> "pg.default"]
      [] bind = "cache:redis.default" ->
             [name |-> "cache", service_group |-> "redis.default"]

ServiceBindList(bind) ==
    [binds |-> [i \in 1..Len(bind) |-> ServiceBind_from(bind[i])]]

HealthCheckInterval(seconds) == [seconds |-> seconds]

\* habitat_core::url::bldr_url: the given URL, else HAB_BLDR_URL, else the
\* default Builder endpoint.
bldr_url(url) ==
    IF url # None THEN url[1]
    ELSE IF hab_bldr_url # None THEN hab_bldr_url[1]
    ELSE DEFAULT_BLDR_URL

\* dpapi::encrypt: the protected form of the password, or a failure of the
\* platform's protection mechanism.
dpapi_encrypt(password, succeeds) ==
    IF succeeds THEN Ok("dpapi:" \o password) ELSE Err("CryptoError")

\* Faulty variant: an empty bind list is sent as a present, empty list.
binds_of_always_present(bind) == Some(ServiceBindList(bind))

\* Lines 328-335
binds_of(bind) ==
    IF bind = <<>> THEN None ELSE Some(ServiceBindList(bind))

\* Faulty variant: a failure to encrypt is dropped and the password left out.
svc_encrypted_password_of_lenient(password, dpapi_succeeds) ==
    IF platform = "windows" /\ password # None /\ dpapi_succeeds
    THEN Ok(Some(dpapi_encrypt(password[1], dpapi_succeeds).value))
    ELSE Ok(None)

\* Lines 347-354
svc_encrypted_password_of(password, dpapi_succeeds) ==
    IF platform = "windows"
    THEN IF password # None
         THEN LET encrypted == dpapi_encrypt(password[1], dpapi_succeeds) IN
              IF encrypted.ok THEN Ok(Some(encrypted.value)) ELSE encrypted
         ELSE Ok(None)
    ELSE Ok(None)

\* Faulty variant: a Load without topology is sent as standalone.
shared_load_cli_to_ctl_default_topology(ident, shared_load, force, dpapi_succeeds) ==
    LET svc_encrypted_password ==
            svc_encrypted_password_of(shared_load["password"], dpapi_succeeds)
    IN  IF ~svc_encrypted_password.ok THEN svc_encrypted_password
        ELSE Ok([ident |-> Some(PackageIdent_into(ident)),
                 application_environment |-> None,
                 binds |-> binds_of(shared_load["bind"]),
                 binding_mode |-> Some(BindingModeCode(shared_load["binding_mode"])),
                 bldr_url |-> Some(bldr_url(shared_load["bldr_url"])),
                 bldr_channel |-> Some(shared_load["channel"]),
                 config_from |-> shared_load["config_from"],
                 force |-> Some(force),
                 group |-> Some(shared_load["group"]),
                 svc_encrypted_password |-> svc_encrypted_password.value,
                 topology |-> IF shared_load["topology"] = None
                              THEN Some(TopologyCode("standalone"))
                              ELSE OptMap(TopologyCode, shared_load["topology"]),
                 update_strategy |-> Some(UpdateStrategyCode(shared_load["strategy"])),
                 health_check_interval |->
                     Some(HealthCheckInterval(shared_load["health_check_interval"])),
                 shutdown_timeout |-> shared_load["shutdown_timeout"],
                 update_condition |->
                     Some(UpdateConditionCode(shared_load["update_condition"]))])

\* Lines 308-372.  dpapi_succeeds is the outcome of the platform call.
shared_load_cli_to_ctl(ident, shared_load, force, dpapi_succeeds) ==
    LET binds == binds_of(shared_load["bind"])
        config_from == shared_load["config_from"]
        svc_encrypted_password ==
            svc_encrypted_password_of(shared_load["password"], dpapi_succeeds)
    IN  IF ~svc_encrypted_password.ok THEN svc_encrypted_password
        ELSE Ok([ident |-> Some(PackageIdent_into(ident)),
                 application_environment |-> None,
                 binds |-> binds,
                 binding_mode |-> Some(BindingModeCode(shared_load["binding_mode"])),
                 bldr_url |-> Some(bldr_url(shared_load["bldr_url"])),
                 bldr_channel |-> Some(shared_load["channel"]),
                 config_from |-> config_from,
                 force |-> Some(force),
                 group |-> Some(shared_load["group"]),
                 svc_encrypted_password |-> svc_encrypted_password.value,
                 topology |-> OptMap(TopologyCode, shared_load["topology"]),
                 update_strategy |-> Some(UpdateStrategyCode(shared_load["strategy"])),
                 health_check_interval |->
                     Some(HealthCheckInterval(shared_load["health_check_interval"])),
                 shutdown_timeout |-> shared_load["shutdown_timeout"],
                 update_condition |->
                     Some(UpdateConditionCode(shared_load["update_condition"]))])

\* TryFrom<Load> for SvcLoad
try_from_load(svc_load, dpapi_succeeds) ==
    shared_load_cli_to_ctl(svc_load[IdentKey], svc_load, svc_load["force"],
                           dpapi_succeeds)

\* The fields of Update: all optional but the identity.
UpdateFieldKeys == {"remote_sup", "channel", "bldr_url", "group", "topology",
                    "strategy", "update_condition", "bind", "binding_mode",
                    "health_check_interval", "shutdown_timeout", "password"}

\* Faulty variant: the pattern leaves group to a rest pattern.
no_fields_specified_but_group(msg) ==
    /\ msg.binds = None
    /\ msg.binding_mode = None
    /\ msg.bldr_url = None
    /\ msg.bldr_channel = None
    /\ msg.svc_encrypted_password = None
    /\ msg.topology = None
    /\ msg.update_strategy = None
    /\ msg.health_check_interval = None
    /\ msg.shutdown_timeout = None
    /\ msg.update_condition = None

\* Lines 499-510: the pattern that matches a message with nothing to change.
no_fields_specified(msg) ==
    /\ msg.binds = None
    /\ msg.binding_mode = None
    /\ msg.bldr_url = None
    /\ msg.bldr_channel = None
    /\ msg.group = None
    /\ msg.svc_encrypted_password = None
    /\ msg.topology = None
    /\ msg.update_strategy = None
    /\ msg.health_check_interval = None
    /\ msg.shutdown_timeout = None
    /\ msg.update_condition = None

\* Faulty variant: an unset endpoint URL falls back to the environment or the
\* default, as it does for a Load.
try_from_update_with_url_fallback(u) ==
    LET msg == [ident |-> Some(PackageIdent_into(u[IdentKey][1])),
                bldr_url |-> Some(bldr_url(u["bldr_url"])),
                bldr_channel |-> u["channel"],
                binds |-> OptMap(ServiceBindList, u["bind"]),
                group |-> u["group"],
                health_check_interval |->
                    OptMap(HealthCheckInterval, u["health_check_interval"]),
                binding_mode |-> OptMap(BindingModeCode, u["binding_mode"]),
                topology |-> OptMap(TopologyCode, u["topology"]),
                update_strategy |-> OptMap(UpdateStrategyCode, u["strategy"]),
                update_condition |-> OptMap(UpdateConditionCode, u["update_condition"]),
                shutdown_timeout |-> u["shutdown_timeout"],
                svc_encrypted_password |->
                    IF platform = "windows" THEN u["password"] ELSE None]
    IN  IF no_fields_specified([msg EXCEPT !.bldr_url = u["bldr_url"]])
        THEN Err("EmptyUpdate") ELSE Ok(msg)

\* Faulty variant: an empty bind list is left out, as it is for a Load.
try_from_update_empty_bind_absent(u) ==
    LET msg == [ident |-> Some(PackageIdent_into(u[IdentKey][1])),
                bldr_url |-> u["bldr_url"],
                bldr_channel |-> u["channel"],
                binds |-> IF u["bind"] = None THEN None ELSE binds_of(u["bind"][1]),
                group |-> u["group"],
                health_check_interval |->
                    OptMap(HealthCheckInterval, u["health_check_interval"]),
                binding_mode |-> OptMap(BindingModeCode, u["binding_mode"]),
                topology |-> OptMap(TopologyCode, u["topology"]),
                update_strategy |-> OptMap(UpdateStrategyCode, u["strategy"]),
                update_condition |-> OptMap(UpdateConditionCode, u["update_condition"]),
                shutdown_timeout |-> u["shutdown_timeout"],
                svc_encrypted_password |->
                    IF platform = "windows" THEN u["password"] ELSE None]
    IN  IF no_fields_specified(msg) THEN Err("EmptyUpdate") ELSE Ok(msg)

\* TryFrom<Update> for ctl::SvcUpdate
try_from_update(u) ==
    LET msg == [ident |-> Some(PackageIdent_into(u[IdentKey][1])),
                bldr_url |-> u["bldr_url"],
                bldr_channel |-> u["channel"],
                binds |-> OptMap(ServiceBindList, u["bind"]),
                group |-> u["group"],
                health_check_interval |->
                    OptMap(HealthCheckInterval, u["health_check_interval"]),
                binding_mode |-> OptMap(BindingModeCode, u["binding_mode"]),
                topology |-> OptMap(TopologyCode, u["topology"]),
                update_strategy |-> OptMap(UpdateStrategyCode, u["strategy"]),
                update_condition |-> OptMap(UpdateConditionCode, u["update_condition"]),
                shutdown_timeout |-> u["shutdown_timeout"],
                svc_encrypted_password |->
                    IF platform = "windows" THEN u["password"] ELSE None]
    IN  IF no_fields_specified(msg) THEN Err("EmptyUpdate") ELSE Ok(msg)

\* The Load values the command line yields: an identity and at most MaxKeys
\* options given, the others at their default_value.
LoadInputs ==
    { ParsedLoad([l EXCEPT ![IdentKey] = Some("core/redis")]) :
        l \in UNION { LayersOfSize(n, FieldKeys) : n \in 0..MaxKeys } }

\* The Update values the command line yields: an identity and at most MaxKeys
\* options given.
UpdateInputs ==
    { [k \in {IdentKey} \cup UpdateFieldKeys |->
          IF k = IdentKey THEN Some("core/redis") ELSE l[k]] :
        l \in UNION { LayersOfSize(n, UpdateFieldKeys) : n \in 0..MaxKeys } }

\* hab svc load: the request built from the parsed command line.  The
\* password option exists on Windows only.
TryFromLoad ==
    /\ call = NoCall
    /\ \E svc_load \in LoadInputs, dpapi_succeeds \in BOOLEAN :
        /\ platform = "windows" \/ svc_load["password"] = None
        /\ ~dpapi_succeeds => (platform = "windows" /\ svc_load["password"] # None)
        /\ call' = [op |-> "try_from_load", svc_load |-> svc_load,
                    dpapi_succeeds |-> dpapi_succeeds]
        /\ ret' = try_from_load(svc_load, dpapi_succeeds)
        /\ UNCHANGED env

\* hab svc update: the request built from the parsed command line.
TryFromUpdate ==
    /\ call = NoCall
    /\ \E u \in UpdateInputs :
        /\ platform = "windows" \/ u["password"] = None
        /\ call' = [op |-> "try_from_update", update |-> u]
        /\ ret' = try_from_update(u)
        /\ UNCHANGED env

InitBuild ==
    /\ platform \in {"linux", "windows"}
    /\ feature_flag = TRUE
    /\ hab_bldr_url \in {None, Some("https://bldr.acme.example/")}
    /\ default_file = None
    /\ fs = [p \in RootPaths |-> None]
    /\ call = NoCall
    /\ ret = Ok(<<>>)

NextBuild == TryFromLoad \/ TryFromUpdate

SpecBuild == InitBuild /\ [][NextBuild]_vars

----------------------------------------------------------------------------
(* Claims about the Request Builder *)

IsLoadCall == call.op = "try_from_load"
IsUpdateCall == call.op = "try_from_update"

\* C7: a Load with an empty bind list yields a request whose bind field is
\* absent, never a present empty list; a Load with binds yields a present list
\* of exactly those binds, in the same order.
C7_BindEncoding ==
    (IsLoadCall /\ ret.ok) =>
        LET bind == call.svc_load["bind"] IN
        /\ bind = <<>> => ret.value.binds = None
        /\ bind # <<>> =>
              /\ ret.value.binds # None
              /\ Len(ret.value.binds[1].binds) = Len(bind)
              /\ \A i \in 1..Len(bind) :
                    ret.value.binds[1].binds[i] = ServiceBind_from(bind[i])

\* Two binds, cache before db, arrive in that order.
C7_Witness ==
    /\ IsLoadCall /\ ret.ok
    /\ call.svc_load["bind"] = <<"cache:redis.default", "db:pg.default">>
    /\ ret.value.binds[1].binds[1].name = "cache"
    /\ ret.value.binds[1].binds[2].name = "db"

\* The options of an update that reach the request: every field but the
\* identity and the address of the Supervisor; the password on Windows only.
UpdateRequestKeys ==
    (UpdateFieldKeys \ {"remote_sup"})
    \ (IF platform = "windows" THEN {} ELSE {"password"})

\* C8: build_update fails with EmptyUpdate exactly when no field other than
\* the identity is given; with one field given it returns the request.
C8_EmptyUpdate ==
    IsUpdateCall =>
        /\ ~ret.ok <=> (\A k \in UpdateRequestKeys : call.update[k] = None)
        /\ ~ret.ok => ret.err = "EmptyUpdate"
        /\ ret.ok => ret.value.ident = Some(PackageIdent_into(call.update[IdentKey][1]))

\* Only the group is given: the update is accepted.
C8_Witness ==
    /\ IsUpdateCall /\ ret.ok
    /\ call.update["group"] = Some("prod")
    /\ \A k \in UpdateRequestKeys \ {"group"} : call.update[k] = None
    /\ ret.value.group = Some("prod")

\* C9 as stated: build_load returns a request for every resolved spec, also
\* for one with a credential where credentials are protected.
C9_LoadAlwaysSucceeds ==
    IsLoadCall => ret.ok

\* C9 amended: build_load returns a request for every resolved spec, except
\* that where credentials are protected a spec with a credential fails with
\* CryptoError when the protection mechanism fails to encrypt it.
C9_LoadFailsOnlyOnEncrypt ==
    IsLoadCall =>
        LET encrypt_fails == /\ platform = "windows"
                             /\ call.svc_load["password"] # None
                             /\ ~call.dpapi_succeeds
        IN  /\ ret.ok <=> ~encrypt_fails
            /\ ~ret.ok => ret.err = "CryptoError"

\* A credential on Windows whose encryption fails: CryptoError.
C9_Witness ==
    /\ IsLoadCall
    /\ platform = "windows"
    /\ call.svc_load["password"] = Some("hunter2")
    /\ ~call.dpapi_succeeds
    /\ ~ret.ok /\ ret.err = "CryptoError"

\* The credential the caller supplied with the last call.
SuppliedPassword ==
    IF IsLoadCall THEN call.svc_load["password"] ELSE call.update["password"]

\* C10 as stated: in every request the builder returns, Load or Update, a
\* supplied credential appears in its encrypted form only, never as the
\* plaintext; where credentials are not protected the field is absent.
C10_CredentialEncrypted ==
    ((IsLoadCall \/ IsUpdateCall) /\ ret.ok) =>
        /\ platform # "windows" => ret.value.svc_encrypted_password = None
        /\ ret.value.svc_encrypted_password # None =>
              /\ SuppliedPassword # None
              /\ ret.value.svc_encrypted_password # SuppliedPassword
              /\ ret.value.svc_encrypted_password
                     = Some(dpapi_encrypt(SuppliedPassword[1], TRUE).value)

\* C15: an Update request carries the identity, and every other field is
\* present exactly when the update gives it, with the value given (the
\* enumerations as their codes); nothing is filled in for a field not given,
\* the endpoint URL included.  For the credential the claim checked here is
\* its presence; its form is the subject of C10.
C15_SparseUpdate ==
    (IsUpdateCall /\ ret.ok) =>
        LET u == call.update
            msg == ret.value
        IN  /\ msg.ident = Some(PackageIdent_into(u[IdentKey][1]))
            /\ msg.bldr_url = u["bldr_url"]
            /\ msg.bldr_channel = u["channel"]
            /\ msg.group = u["group"]
            /\ msg.shutdown_timeout = u["shutdown_timeout"]
            /\ msg.topology = OptMap(TopologyCode, u["topology"])
            /\ msg.update_strategy = OptMap(UpdateStrategyCode, u["strategy"])
            /\ msg.update_condition
                   = OptMap(UpdateConditionCode, u["update_condition"])
            /\ msg.binding_mode = OptMap(BindingModeCode, u["binding_mode"])
            /\ msg.health_check_interval
                   = (IF u["health_check_interval"] = None THEN None
                      ELSE Some([seconds |-> u["health_check_interval"][1]]))
            /\ (msg.binds = None) <=> (u["bind"] = None)
            /\ u["bind"] # None =>
                   /\ Len(msg.binds[1].binds) = Len(u["bind"][1])
                   /\ \A i \in 1..Len(u["bind"][1]) :
                         msg.binds[1].binds[i] = ServiceBind_from(u["bind"][1][i])
            /\ (msg.svc_encrypted_password = None)
                   <=> (platform # "windows" \/ u["password"] = None)
            /\ DOMAIN msg = {"ident", "bldr_url", "bldr_channel", "binds", "group",
                             "health_check_interval", "binding_mode", "topology",
                             "update_strategy", "update_condition",
                             "shutdown_timeout", "svc_encrypted_password"}

\* HAB_BLDR_URL is set, the update gives only the strategy rolling: the
\* request carries code 2 and no endpoint URL.
C15_Witness ==
    /\ IsUpdateCall /\ ret.ok
    /\ hab_bldr_url # None
    /\ call.update["bldr_url"] = None
    /\ call.update["strategy"] = Some("rolling")
    /\ ret.value.update_strategy = Some(2)
    /\ ret.value.bldr_url = None
    /\ ret.value.group = None

\* The fields of a Load request that C16 says are always present, topology
\* apart.
AlwaysPresentInLoad(msg) ==
    /\ msg.ident # None
    /\ msg.group # None
    /\ msg.update_strategy # None
    /\ msg.update_condition # None
    /\ msg.binding_mode # None
    /\ msg.health_check_interval # None
    /\ msg.force # None

\* C16 as stated: every Load request carries identity, group, topology code,
\* strategy code, update-condition code, binding-mode code, health-check
\* interval and force flag.
C16_LoadComplete ==
    (IsLoadCall /\ ret.ok) =>
        /\ AlwaysPresentInLoad(ret.value)
        /\ ret.value.topology # None

\* C16 amended: every Load request carries identity, group, strategy code,
\* update-condition code, binding-mode code, health-check interval and force
\* flag (and the channel and the endpoint URL); the topology code is present
\* exactly when the spec states a topology, and then it is that topology's code.
C16_LoadCompleteButTopology ==
    (IsLoadCall /\ ret.ok) =>
        /\ AlwaysPresentInLoad(ret.value)
        /\ ret.value.bldr_channel # None
        /\ ret.value.bldr_url # None
        /\ (ret.value.topology = None) <=> (call.svc_load["topology"] = None)
        /\ call.svc_load["topology"] = Some("standalone") => ret.value.topology = Some(0)
        /\ call.svc_load["topology"] = Some("leader") => ret.value.topology = Some(1)

\* No --topology given: the request has no topology code, and has the group.
C16_Witness ==
    /\ IsLoadCall /\ ret.ok
    /\ call.svc_load["topology"] = None
    /\ ret.value.topology = None
    /\ ret.value.group = Some("default")
    /\ ret.value.update_strategy = Some(0)

\* C17: an update whose bind option is given with an empty list yields a
\* request with a present, empty bind list, and that counts as a field given:
\* build_update succeeds, also when nothing else is given; a Load with an
\* empty bind list yields a request without bind field.
C17_EmptyBindInUpdate ==
    /\ (IsUpdateCall /\ call.update["bind"] = Some(<<>>)) =>
           /\ ret.ok
           /\ ret.value.binds = Some([binds |-> <<>>])
    /\ (IsLoadCall /\ ret.ok /\ call.svc_load["bind"] = <<>>) =>
           ret.value.binds = None

\* Only --bind is given, with no value: the update is accepted.
C17_Witness ==
    /\ IsUpdateCall
    /\ call.update["bind"] = Some(<<>>)
    /\ \A k \in UpdateFieldKeys \ {"bind"} : call.update[k] = None
    /\ ret.ok
    /\ ret.value.binds # None
    /\ ret.value.binds[1].binds = <<>>

----------------------------------------------------------------------------
(* Blake2bHash (crypto/hash.rs): a digest of HASH_DIGEST_SIZE bytes and its *)
(* text form.  A string is a sequence of one-character strings, a digest a  *)
(* sequence of bytes.                                                       *)

HASH_DIGEST_SIZE == 32

LowerHexDigits ==
    <<"0", "1", "2", "3", "4", "5", "6", "7", "8", "9", "a", "b", "c", "d", "e", "f">>
UpperHexDigits ==
    <<"0", "1", "2", "3", "4", "5", "6", "7", "8", "9", "A", "B", "C", "D", "E", "F">>

\* str::to_lowercase on the characters used here.
char_to_lowercase(c) ==
    IF \E i \in 11..16 : UpperHexDigits[i] = c
    THEN LowerHexDigits[CHOOSE i \in 11..16 : UpperHexDigits[i] = c]
    ELSE IF c = "G" THEN "g" ELSE c

to_lowercase(s) == [i \in 1..Len(s) |-> char_to_lowercase(s[i])]

\* hex::encode: two lowercase digits per byte, high nibble first.
RECURSIVE hex_encode(_)
hex_encode(bytes) ==
    IF bytes = <<>> THEN <<>>
    ELSE <<LowerHexDigits[(Head(bytes) \div 16) + 1],
           LowerHexDigits[(Head(bytes) % 16) + 1]>> \o hex_encode(Tail(bytes))

\* hex's val: the value of one digit, of either case.
hex_val(c) ==
    IF \E i \in 1..16 : LowerHexDigits[i] = c
    THEN Ok((CHOOSE i \in 1..16 : LowerHexDigits[i] = c) - 1)
    ELSE IF \E i \in 1..16 : UpperHexDigits[i] = c
    THEN Ok((CHOOSE i \in 1..16 : UpperHexDigits[i] = c) - 1)
    ELSE Err("InvalidHexCharacter")

RECURSIVE hex_decode_pairs(_)
hex_decode_pairs(s) ==
    IF s = <<>> THEN Ok(<<>>)
    ELSE LET hi == hex_val(s[1])
             lo == hex_val(s[2])
         IN  IF ~hi.ok THEN hi
             ELSE IF ~lo.ok THEN lo
             ELSE LET rest == hex_decode_pairs(SubSeq(s, 3, Len(s))) IN
                  IF ~rest.ok THEN rest
                  ELSE Ok(<<hi.value * 16 + lo.value>> \o rest.value)

\* <[u8; HASH_DIGEST_SIZE] as FromHex>::from_hex
from_hex(s) ==
    IF Len(s) % 2 # 0 THEN Err("OddLength")
    ELSE IF Len(s) \div 2 # HASH_DIGEST_SIZE THEN Err("InvalidStringLength")
    ELSE hex_decode_pairs(s)

Blake2bHash_new(digest) ==
    [digest |-> digest, hex_string |-> to_lowercase(hex_encode(digest))]

\* Faulty variant: only lowercase digits are accepted.
Blake2bHash_from_str_case_sensitive(s) ==
    LET digest == from_hex(s) IN
    IF digest.ok /\ to_lowercase(s) = s THEN Ok(Blake2bHash_new(digest.value))
    ELSE Err("CryptoError")

\* FromStr for Blake2bHash
Blake2bHash_from_str(s) ==
    LET digest == from_hex(s) IN
    IF digest.ok THEN Ok(Blake2bHash_new(digest.value))
    ELSE Err("CryptoError")

\* Display for Blake2bHash
Blake2bHash_to_string(hash) == to_lowercase(hex_encode(hash.digest))

\* crypto::secure_eq: equality of the bytes AsRef<[u8]> exposes.
secure_eq(a, b) == a.digest = b.digest

\* PartialEq for Blake2bHash
Blake2bHash_eq(self, other) == secure_eq(self, other)

\* The hash text of the unit tests from_str_case_is_insignificant and
\* from_str_display_round_trip.
lower_case ==
    <<
      "2", "0", "5", "9", "0", "a", "5", "2", "c", "4", "f", "0", "0", "5", "8", "8",
      "c", "5", "0", "0", "3", "2", "8", "b", "1", "6", "d", "4", "6", "6", "c", "9",
      "8", "2", "a", "2", "6", "f", "a", "b", "a", "a", "5", "f", "a", "4", "d", "c",
      "c", "8", "3", "0", "5", "2", "d", "d", "0", "a", "8", "4", "f", "2", "3", "3" >>

\* The characters an input can start with: digits of both cases, and
\* characters that are no hex digits.
InputChars == {"0", "9", "a", "f", "A", "F", "g", "G"}

\* The number of leading characters of an input that vary freely.
MaxFreeChars == 2

\* An input: MaxFreeChars free characters, continued with lower_case (repeated
\* as far as needed) in lowercase or uppercase, to a length around the
\* 2 * HASH_DIGEST_SIZE characters of a digest.
char_to_uppercase(c) ==
    IF \E i \in 11..16 : LowerHexDigits[i] = c
    THEN UpperHexDigits[CHOOSE i \in 11..16 : LowerHexDigits[i] = c]
    ELSE IF c = "g" THEN "G" ELSE c

to_uppercase(s) == [i \in 1..Len(s) |-> char_to_uppercase(s[i])]

InputLengths == (2 * HASH_DIGEST_SIZE - 2)..(2 * HASH_DIGEST_SIZE + 2)

HashStrings ==
    { [i \in 1..n |->
         IF i <= Len(prefix) THEN prefix[i]
         ELSE IF upper THEN char_to_uppercase(lower_case[((i - 1) % Len(lower_case)) + 1])
         ELSE lower_case[((i - 1) % Len(lower_case)) + 1]] :
        prefix \in [1..MaxFreeChars -> InputChars],
        upper \in BOOLEAN,
        n \in InputLengths }

\* s.parse::<Blake2bHash>()
HashFromStr ==
    /\ call = NoCall
    /\ \E s \in HashStrings :
          /\ call' = [op |-> "from_str", s |-> s]
          /\ ret' = Blake2bHash_from_str(s)
    /\ UNCHANGED env

\* hash.to_string() on the hash just parsed
HashToString ==
    /\ call.op = "from_str"
    /\ ret.ok
    /\ call' = [op |-> "to_string", s |-> call.s, hash |-> ret.value]
    /\ ret' = Ok(Blake2bHash_to_string(ret.value))
    /\ UNCHANGED env

\* hash.to_string().parse::<Blake2bHash>()
HashFromDisplayed ==
    /\ call.op = "to_string"
    /\ call' = [op |-> "from_displayed", s |-> call.s, hash |-> call.hash,
                displayed |-> ret.value]
    /\ ret' = Blake2bHash_from_str(ret.value)
    /\ UNCHANGED env

InitHash ==
    /\ platform = "linux"
    /\ feature_flag = FALSE
    /\ hab_bldr_url = None
    /\ default_file = None
    /\ fs = [p \in RootPaths |-> None]
    /\ call = NoCall
    /\ ret = Ok(<<>>)

NextHash == HashFromStr \/ HashToString \/ HashFromDisplayed

SpecHash == InitHash /\ [][NextHash]_vars

\* A string of exactly 2 * HASH_DIGEST_SIZE hex digits of any case.
IsHashText(s) ==
    /\ Len(s) = 2 * HASH_DIGEST_SIZE
    /\ \A i \in 1..Len(s) :
          s[i] \in {"0", "1", "2", "3", "4", "5", "6", "7", "8", "9",
                    "a", "b", "c", "d", "e", "f", "A", "B", "C", "D", "E", "F"}

\* C14: a string of exactly 64 hex digits of any case parses; the parsed hash
\* displays as the string lowercased; it equals the hash parsed from the same
\* string in uppercase and in lowercase; and parsing what a hash displays
\* gives a hash equal to it.
C14_HashTextRoundTrip ==
    /\ (call.op = "from_str" /\ IsHashText(call.s)) =>
           /\ ret.ok
           /\ Blake2bHash_from_str(to_uppercase(call.s)).ok
           /\ Blake2bHash_from_str(to_lowercase(call.s)).ok
           /\ Blake2bHash_eq(ret.value, Blake2bHash_from_str(to_uppercase(call.s)).value)
           /\ Blake2bHash_eq(ret.value, Blake2bHash_from_str(to_lowercase(call.s)).value)
    /\ call.op = "to_string" => ret.value = to_lowercase(call.s)
    /\ call.op = "from_displayed" =>
           /\ ret.ok
           /\ Blake2bHash_eq(ret.value, call.hash)

\* A text with uppercase digits was parsed, displayed in lowercase and
\* parsed again.
C14_Witness ==
    /\ call.op = "from_displayed"
    /\ call.s # to_lowercase(call.s)
    /\ call.displayed = to_lowercase(call.s)
    /\ ret.ok
    /\ Blake2bHash_eq(ret.value, call.hash)

====
